---- MODULE Spec2Model ----
(***************************************************************************)
(* Circuit graph, code synthesis and LED simulation of src/app/App.tsx.    *)
(*                                                                         *)
(* The React component App keeps its state in useState cells; every event  *)
(* handler runs to completion and the effects that depend on the cells it  *)
(* set (generateCode, the simulation effect) run before the next event.    *)
(* One action of this module is one handler together with those effects.   *)
(*                                                                         *)
(* Three specifications share the handlers:                                *)
(*   Spec         placing, wiring, running and setting potentiometers, up  *)
(*                to MaxComponents components;                             *)
(*   SpecEditing  the same with drags, typing into the code text and the   *)
(*                hit tests of the canvas, up to MaxDragged components;    *)
(*   SpecBurst    placing and setting potentiometers with a clock that may *)
(*                stand still between two presses.                         *)
(***************************************************************************)
EXTENDS Integers, Sequences, FiniteSets, TLC

(***************************************************************************)
(* Bounds of the model.                                                    *)
(***************************************************************************)
\* the number of components the user places
MaxComponents == 3
\* the number of connections the user draws before clearing them
MaxConnections == 2
\* the number of components on the canvas while the user also drags them and
\* edits the code text
MaxDragged == 2

(***************************************************************************)
(* Characters and strings.  Pin ids are kept as sequences of characters so *)
(* that split('_') can be computed; everything the code concatenates into  *)
(* text is a string.                                                       *)
(***************************************************************************)
RECURSIVE Str(_)
\* the string spelled by a sequence of characters
Str(cs) == IF cs = <<>> THEN "" ELSE Head(cs) \o Str(Tail(cs))

Digit == <<"0", "1", "2", "3", "4", "5", "6", "7", "8", "9">>

RECURSIVE DecStr(_)
\* `${n}` for a non-negative integer n
DecStr(n) == IF n < 10 THEN Digit[n + 1] ELSE DecStr(n \div 10) \o Digit[(n % 10) + 1]

\* s.split('_')[0]: the characters before the first underscore
SplitFirst(cs) ==
  LET us == {k \in 1..Len(cs) : cs[k] = "_"}
  IN  IF us = {} THEN cs
      ELSE SubSeq(cs, 1, (CHOOSE k \in us : \A j \in us : k <= j) - 1)

RECURSIVE Join(_)
\* lines.join('\n')
Join(lines) ==
  IF lines = <<>> THEN ""
  ELSE IF Len(lines) = 1 THEN lines[1]
  ELSE lines[1] \o "\n" \o Join(Tail(lines))

(***************************************************************************)
(* Pin layout tables.                                                      *)
(***************************************************************************)
esp8266Pins ==
  [left |-> <<
     [id |-> <<"A","0">>,                 label |-> "A0",  offset |-> 0],
     [id |-> <<"R","S","T">>,             label |-> "RST", offset |-> 1],
     [id |-> <<"E","N">>,                 label |-> "EN",  offset |-> 2],
     [id |-> <<"3","V","3","_","L">>,     label |-> "3V3", offset |-> 3],
     [id |-> <<"G","N","D","_","L","1">>, label |-> "GND", offset |-> 4],
     [id |-> <<"C","L","K">>,             label |-> "CLK", offset |-> 5],
     [id |-> <<"S","D","0">>,             label |-> "SD0", offset |-> 6],
     [id |-> <<"C","M","D">>,             label |-> "CMD", offset |-> 7],
     [id |-> <<"S","D","1">>,             label |-> "SD1", offset |-> 8],
     [id |-> <<"S","D","2">>,             label |-> "SD2", offset |-> 9],
     [id |-> <<"S","D","3">>,             label |-> "SD3", offset |-> 10],
     [id |-> <<"R","X","_","L">>,         label |-> "RX",  offset |-> 11],
     [id |-> <<"T","X","_","L">>,         label |-> "TX",  offset |-> 12],
     [id |-> <<"G","N","D","_","L","2">>, label |-> "GND", offset |-> 13],
     [id |-> <<"3","V","3","_","L","2">>, label |-> "3V3", offset |-> 14] >>,
   right |-> <<
     [id |-> <<"D","0">>,                 label |-> "D0",  offset |-> 0],
     [id |-> <<"D","1">>,                 label |-> "D1",  offset |-> 1],
     [id |-> <<"D","2">>,                 label |-> "D2",  offset |-> 2],
     [id |-> <<"D","3">>,                 label |-> "D3",  offset |-> 3],
     [id |-> <<"D","4">>,                 label |-> "D4",  offset |-> 4],
     [id |-> <<"D","5">>,                 label |-> "D5",  offset |-> 5],
     [id |-> <<"D","6">>,                 label |-> "D6",  offset |-> 6],
     [id |-> <<"D","7">>,                 label |-> "D7",  offset |-> 7],
     [id |-> <<"D","8">>,                 label |-> "D8",  offset |-> 8],
     [id |-> <<"3","V","3","_","R">>,     label |-> "3V3", offset |-> 9],
     [id |-> <<"G","N","D","_","R","1">>, label |-> "GND", offset |-> 10],
     [id |-> <<"R","X","_","R">>,         label |-> "RX",  offset |-> 11],
     [id |-> <<"T","X","_","R">>,         label |-> "TX",  offset |-> 12],
     [id |-> <<"G","N","D","_","R","2">>, label |-> "GND", offset |-> 13],
     [id |-> <<"V","I","N">>,             label |-> "VIN", offset |-> 14] >>]

anode   == <<"a","n","o","d","e">>
cathode == <<"c","a","t","h","o","d","e">>
pin1    == <<"p","i","n","1">>
pin2    == <<"p","i","n","2">>
vcc     == <<"v","c","c">>
signal  == <<"s","i","g","n","a","l">>
gnd     == <<"g","n","d">>

\* the pins addComponent gives a new esp8266: the left column, then the right
Esp8266Pins ==
  [k \in 1..Len(esp8266Pins.left) |->
     [id |-> esp8266Pins.left[k].id, label |-> esp8266Pins.left[k].label,
      x |-> 0, y |-> esp8266Pins.left[k].offset * 20 + 10, side |-> "left"]]
  \o
  [k \in 1..Len(esp8266Pins.right) |->
     [id |-> esp8266Pins.right[k].id, label |-> esp8266Pins.right[k].label,
      x |-> 120, y |-> esp8266Pins.right[k].offset * 20 + 10, side |-> "right"]]

\* the pins addComponent gives a new component of each type
PinsOf(type) ==
  IF type = "esp8266" THEN Esp8266Pins
  ELSE IF type = "led" THEN
    << [id |-> anode,   label |-> "+", x |-> 20, y |-> 0,  side |-> "left"],
       [id |-> cathode, label |-> "-", x |-> 20, y |-> 50, side |-> "left"] >>
  ELSE IF type = "resistor" THEN
    << [id |-> pin1, label |-> "1", x |-> 0,  y |-> 15, side |-> "left"],
       [id |-> pin2, label |-> "2", x |-> 80, y |-> 15, side |-> "right"] >>
  ELSE
    << [id |-> vcc,    label |-> "VCC", x |-> 10, y |-> 65, side |-> "left"],
       [id |-> signal, label |-> "SIG", x |-> 35, y |-> 65, side |-> "left"],
       [id |-> gnd,    label |-> "GND", x |-> 60, y |-> 65, side |-> "right"] >>

(***************************************************************************)
(* Components and connections.                                             *)
(***************************************************************************)
ComponentTypes == {"esp8266", "led", "resistor", "potentiometer"}

\* the config addComponent gives a new component of each type
InitialConfig(type) ==
  IF type = "led" THEN [color |-> "#ff0000"]
  ELSE IF type = "resistor" THEN [value |-> 220]
  ELSE IF type = "potentiometer" THEN [value |-> 512]
  ELSE <<>>

\* `${type}_${Date.now()}`
ComponentId(type, now) == type \o "_" \o DecStr(now)

\* the component addComponent builds
NewComponent(type, now) ==
  [id |-> ComponentId(type, now), type |-> type, x |-> 100, y |-> 100,
   config |-> InitialConfig(type)]

\* the connection handlePinClick builds.  Its id, `conn_${Date.now()}`, is
\* written there and read nowhere in App.tsx; the record leaves it out.
NewConnection(fromComponentId, fromPinId, toComponentId, toPinId) ==
  [fromComponentId |-> fromComponentId, fromPinId |-> fromPinId,
   toComponentId |-> toComponentId, toPinId |-> toPinId]

\* the greatest index of S instead of the least, as findLast would give
LastIndex(S) == IF S = {} THEN 0 ELSE CHOOSE k \in S : \A j \in S : j <= k

\* Array.prototype.find over indices: the least index of S, 0 when there is none
FirstIndex(S) == IF S = {} THEN 0 ELSE CHOOSE k \in S : \A j \in S : k <= j

\* components.find(c => c.id === id), as an index (0: undefined)
FindById(comps, id) == FirstIndex({k \in 1..Len(comps) : comps[k].id = id})

\* components.find(co => co.id === id)?.type, "" when undefined
TypeOfId(comps, id) ==
  IF FindById(comps, id) = 0 THEN "" ELSE comps[FindById(comps, id)].type

\* components.find(c => c.type === 'esp8266'), as an index (0: undefined)
FindEsp(comps) == FirstIndex({k \in 1..Len(comps) : comps[k].type = "esp8266"})

(***************************************************************************)
(* generateCode.                                                           *)
(***************************************************************************)
Placeholder == "// Agrega un ESP8266 para comenzar"

\* LedMatches without the test of the pin: any pin of the LED binds it
LedMatchesAnyPin(c, comp, esp) ==
  \/ c.fromComponentId = comp.id /\ c.toComponentId = esp.id
  \/ c.toComponentId = comp.id /\ c.fromComponentId = esp.id

\* the predicate of connections.find for an LED: its anode joined to the ESP
LedMatches(c, comp, esp) ==
  \/ c.fromComponentId = comp.id /\ c.fromPinId = anode /\ c.toComponentId = esp.id
  \/ c.toComponentId = comp.id /\ c.toPinId = anode /\ c.fromComponentId = esp.id

\* PotMatches without the test of the pin: any pin of the potentiometer binds it
PotMatchesAnyPin(c, comp, esp) ==
  \/ c.fromComponentId = comp.id /\ c.toComponentId = esp.id
  \/ c.toComponentId = comp.id /\ c.fromComponentId = esp.id

\* the predicate of connections.find for a potentiometer: its signal pin
PotMatches(c, comp, esp) ==
  \/ c.fromComponentId = comp.id /\ c.fromPinId = signal /\ c.toComponentId = esp.id
  \/ c.toComponentId = comp.id /\ c.toPinId = signal /\ c.fromComponentId = esp.id

\* EspPinOf taking every connection as drawn from the component to the ESP
EspPinOfAsDrawn(conn, esp) == conn.toPinId

\* the ESP side pin of a connection found for a component
EspPinOf(conn, esp) ==
  IF conn.fromComponentId = esp.id THEN conn.fromPinId ELSE conn.toPinId

\* PinName without the split: the pin id as it is
PinNameUnsplit(espPin) == Str(espPin)

\* espPin.split('_')[0], as the text written into the code
PinName(espPin) == Str(SplitFirst(espPin))

RECURSIVE LedConnectionsUpTo(_, _, _, _)
\* ledConnections after components.forEach has visited the first n components
LedConnectionsUpTo(comps, conns, esp, n) ==
  IF n = 0 THEN <<>>
  ELSE LET prev == LedConnectionsUpTo(comps, conns, esp, n - 1)
           comp == comps[n]
           k    == FirstIndex({j \in 1..Len(conns) : LedMatches(conns[j], comp, esp)})
       IN  IF comp.type = "led" /\ k # 0
           THEN Append(prev, [compId |-> comp.id,
                              pin |-> PinName(EspPinOf(conns[k], esp))])
           ELSE prev

RECURSIVE PotConnectionsUpTo(_, _, _, _)
\* potConnections after components.forEach has visited the first n components
PotConnectionsUpTo(comps, conns, esp, n) ==
  IF n = 0 THEN <<>>
  ELSE LET prev == PotConnectionsUpTo(comps, conns, esp, n - 1)
           comp == comps[n]
           k    == FirstIndex({j \in 1..Len(conns) : PotMatches(conns[j], comp, esp)})
       IN  IF comp.type = "potentiometer" /\ k # 0
           THEN Append(prev, [compId |-> comp.id,
                              pin |-> PinName(EspPinOf(conns[k], esp))])
           ELSE prev

RECURSIVE LedConnectionsInDrawingOrderUpTo(_, _, _)
\* ledConnections filled by a loop over the connections instead of the
\* components: the LEDs come in the order their wires were drawn
LedConnectionsInDrawingOrderUpTo(comps, conns, n) ==
  IF n = 0 THEN <<>>
  ELSE LET prev == LedConnectionsInDrawingOrderUpTo(comps, conns, n - 1)
           esp  == comps[FindEsp(comps)]
           hits == {k \in 1..Len(comps) :
                      /\ comps[k].type = "led"
                      /\ LedMatches(conns[n], comps[k], esp)
                      /\ \A j \in 1..Len(prev) : prev[j].compId # comps[k].id}
       IN  IF hits # {}
           THEN Append(prev, [compId |-> comps[FirstIndex(hits)].id,
                              pin |-> PinName(EspPinOf(conns[n], esp))])
           ELSE prev

LedConnectionsInDrawingOrder(comps, conns) ==
  IF FindEsp(comps) = 0 THEN <<>>
  ELSE LedConnectionsInDrawingOrderUpTo(comps, conns, Len(conns))

\* ledConnections of generateCode; empty when there is no ESP
LedConnections(comps, conns) ==
  IF FindEsp(comps) = 0 THEN <<>>
  ELSE LedConnectionsUpTo(comps, conns, comps[FindEsp(comps)], Len(comps))

\* potConnections of generateCode; empty when there is no ESP
PotConnections(comps, conns) ==
  IF FindEsp(comps) = 0 THEN <<>>
  ELSE PotConnectionsUpTo(comps, conns, comps[FindEsp(comps)], Len(comps))

\* pinDefinitions: one #define for each bound LED, then for each bound potentiometer
PinDefinitions(leds, pots) ==
  [idx \in 1..Len(leds) |-> "#define LED_PIN_" \o DecStr(idx) \o " " \o leds[idx].pin]
  \o
  [idx \in 1..Len(pots) |-> "#define POT_PIN_" \o DecStr(idx) \o " " \o pots[idx].pin]

\* setupCode: one pinMode for each bound LED
SetupCode(leds) ==
  [idx \in 1..Len(leds) |-> "  pinMode(LED_PIN_" \o DecStr(idx) \o ", OUTPUT);"]

\* the loop body that reads the potentiometers and drives the LEDs with PWM
PotLoop(leds, pots) ==
  <<"  // Leer valor del potenciómetro">>
  \o [idx \in 1..Len(pots) |-> "  potValue = analogRead(POT_PIN_" \o DecStr(idx) \o ");"]
  \o <<"  ",
       "  // Convertir a rango PWM (0-1023 a 0-255)",
       "  brightness = map(potValue, 0, 1023, 0, 255);",
       "  ",
       "  // Controlar intensidad del LED con PWM">>
  \o [idx \in 1..Len(leds) |-> "  analogWrite(LED_PIN_" \o DecStr(idx) \o ", brightness);"]
  \o <<"  ",
       "  // Imprimir valores en monitor serial",
       "  Serial.print(\"Potenciometro: \");",
       "  Serial.print(potValue);",
       "  Serial.print(\" | Brillo LED: \");",
       "  Serial.println(brightness);",
       "  ",
       "  delay(100);">>

\* BlinkLoop with each LED blinked in its turn, one after the other
BlinkLoopInTurn(leds) ==
  <<"  // Parpadeo simple del LED">>
  \o [n \in 1..4 * Len(leds) |->
       IF n % 4 = 1 THEN "  digitalWrite(LED_PIN_" \o DecStr((n + 3) \div 4) \o ", HIGH);"
       ELSE IF n % 4 = 3 THEN "  digitalWrite(LED_PIN_" \o DecStr((n + 3) \div 4) \o ", LOW);"
       ELSE "  delay(500);"]

\* the loop body that blinks the LEDs
BlinkLoop(leds) ==
  <<"  // Parpadeo simple del LED">>
  \o [idx \in 1..Len(leds) |-> "  digitalWrite(LED_PIN_" \o DecStr(idx) \o ", HIGH);"]
  \o <<"  delay(500);">>
  \o [idx \in 1..Len(leds) |-> "  digitalWrite(LED_PIN_" \o DecStr(idx) \o ", LOW);"]
  \o <<"  delay(500);">>

\* the loop body when no LED is bound
IdleLoop ==
  <<"  // Código principal aquí",
    "  delay(100);">>

\* LoopCode with the first test reduced to potConnections.length > 0
LoopCodePotAlone(leds, pots) ==
  IF Len(pots) > 0 THEN PotLoop(leds, pots)
  ELSE IF Len(leds) > 0 THEN BlinkLoop(leds)
  ELSE IdleLoop

\* the body of loop() for the bound LEDs and potentiometers
LoopCode(leds, pots) ==
  IF Len(pots) > 0 /\ Len(leds) > 0 THEN PotLoop(leds, pots)
  ELSE IF Len(leds) > 0 THEN BlinkLoop(leds)
  ELSE IdleLoop

\* codeLines of generateCode when an ESP exists
CodeLines(comps, conns) ==
  LET leds == LedConnections(comps, conns)
      pots == PotConnections(comps, conns)
      pinDefinitions == PinDefinitions(leds, pots)
      setupCode == SetupCode(leds)
  IN  <<"// Código generado automáticamente para NodeMCU ESP8266", "">>
      \o (IF Len(pinDefinitions) > 0 THEN pinDefinitions \o <<"">> ELSE <<>>)
      \o (IF Len(pots) > 0 /\ Len(leds) > 0
          THEN <<"int potValue = 0;", "int brightness = 0;", "">> ELSE <<>>)
      \o <<"void setup() {", "  Serial.begin(115200);">>
      \o (IF Len(setupCode) > 0 THEN setupCode ELSE <<>>)
      \o <<"  Serial.println(\"ESP8266 iniciado\");", "}", "">>
      \o <<"void loop() {">>
      \o LoopCode(leds, pots)
      \o <<"}">>

\* the text generateCode passes to setCode
GenerateCode(comps, conns) ==
  IF FindEsp(comps) = 0 THEN Placeholder ELSE Join(CodeLines(comps, conns))

(***************************************************************************)
(* The simulation effect.                                                  *)
(***************************************************************************)
RECURSIVE GCD(_, _)
GCD(a, b) == IF b = 0 THEN a ELSE GCD(b, a % b)

\* the number n / d, as a fraction in lowest terms
Frac(n, d) == <<n \div GCD(n, d), d \div GCD(n, d)>>

\* value || dflt: JavaScript takes 0 for false
OrDefault(value, dflt) == IF value = 0 THEN dflt ELSE value

\* LedToEsp without the test of the other end: any wire on the LED lights it
LedToEspAnyPeer(c, comp, comps) ==
  c.fromComponentId = comp.id \/ c.toComponentId = comp.id

\* the predicate of connections.find for ledToEspConn: the connection touches
\* the LED and one of its two ends is a component of type esp8266
LedToEsp(c, comp, comps) ==
  /\ (c.fromComponentId = comp.id \/ c.toComponentId = comp.id)
  /\ \/ TypeOfId(comps, c.fromComponentId) = "esp8266"
     \/ TypeOfId(comps, c.toComponentId) = "esp8266"

\* the test of the scan for a potentiometer connected to the ESP, by any pin
IsPotLink(c, comps) ==
  \/ /\ TypeOfId(comps, c.fromComponentId) = "potentiometer"
     /\ TypeOfId(comps, c.toComponentId) = "esp8266"
  \/ /\ TypeOfId(comps, c.toComponentId) = "potentiometer"
     /\ TypeOfId(comps, c.fromComponentId) = "esp8266"

\* potComp of the scan: fromComp when it is a potentiometer, toComp otherwise
PotComp(c, comps) ==
  IF TypeOfId(comps, c.fromComponentId) = "potentiometer"
  THEN comps[FindById(comps, c.fromComponentId)]
  ELSE comps[FindById(comps, c.toComponentId)]

RECURSIVE PotScanUpTo(_, _, _)
\* hasPotentiometer and potValue after connections.forEach has visited the
\* first n connections
PotScanUpTo(comps, conns, n) ==
  IF n = 0 THEN [hasPotentiometer |-> FALSE, potValue |-> 512]
  ELSE IF IsPotLink(conns[n], comps)
       THEN [hasPotentiometer |-> TRUE,
             potValue |-> OrDefault(PotComp(conns[n], comps).config.value, 512)]
       ELSE PotScanUpTo(comps, conns, n - 1)

\* the value written to newStates[comp.id] for an LED connected to the ESP
Brightness(comps, conns) ==
  LET scan == PotScanUpTo(comps, conns, Len(conns))
  IN  IF scan.hasPotentiometer THEN Frac(scan.potValue, 1023) ELSE Frac(1, 1)

NoStates == [id \in {} |-> Frac(0, 1)]

RECURSIVE NewStatesUpTo(_, _, _)
\* newStates after components.forEach has visited the first n components
NewStatesUpTo(comps, conns, n) ==
  IF n = 0 THEN NoStates
  ELSE LET prev == NewStatesUpTo(comps, conns, n - 1)
           comp == comps[n]
           k    == FirstIndex({j \in 1..Len(conns) : LedToEsp(conns[j], comp, comps)})
       IN  IF comp.type = "led" /\ k # 0
           THEN [id \in DOMAIN prev \cup {comp.id} |->
                   IF id = comp.id THEN Brightness(comps, conns) ELSE prev[id]]
           ELSE prev

\* updateLedStates
UpdateLedStates(comps, conns) == NewStatesUpTo(comps, conns, Len(comps))

\* Simulation without the early return of a stopped run
SimulationWhileStopped(running, comps, conns) == UpdateLedStates(comps, conns)

\* the map the simulation effect passes to setLedStates
Simulation(running, comps, conns) ==
  IF ~running THEN NoStates ELSE UpdateLedStates(comps, conns)

(***************************************************************************)
(* State.                                                                  *)
(***************************************************************************)
VARIABLES
  components,        \* useState<Component[]>
  connections,       \* useState<Connection[]>
  code,              \* useState<string>
  isRunning,         \* useState(false)
  draggingComponent, \* useState<string | null>: <<>> is null
  dragOffset,        \* useState({ x: 0, y: 0 })
  connectingPin,     \* useState<PinConnection | null>: <<>> is null
  ledStates,         \* useState<Record<string, number>>
  clock,             \* the last reading of Date.now() by addComponent
  rejected,          \* whether the last event was a pin click that handlePinClick
                     \* refused because it was on the pending pin's own component
  trace              \* what a specification that follows the session records
                     \* of the events handled so far (see Track)

\* the cells of the drag in progress
drag == <<draggingComponent, dragOffset>>

vars == <<components, connections, code, isRunning, draggingComponent, dragOffset,
          connectingPin, ledStates, clock, rejected, trace>>

\* nothing recorded
NoTrace == [graph |-> FALSE, cleared |-> 0, edit |-> "none", lost |-> "none"]

\* the state after the first render and its effects
Init ==
  /\ components = <<>>
  /\ connections = <<>>
  /\ code = GenerateCode(<<>>, <<>>)
  /\ isRunning = FALSE
  /\ draggingComponent = <<>>
  /\ dragOffset = [x |-> 0, y |-> 0]
  /\ connectingPin = <<>>
  /\ ledStates = Simulation(FALSE, <<>>, <<>>)
  /\ clock = 0
  /\ rejected = FALSE
  /\ trace = NoTrace

(***************************************************************************)
(* The user's inputs.                                                      *)
(***************************************************************************)
\* a reading of Date.now() by addComponent, counted in milliseconds from the
\* mount: two components are placed at least a millisecond apart
Readings == {clock + 1}

\* the pins the user clicks, of a component of each type
ClickedPins(type) ==
  IF type = "esp8266"
  THEN {<<"G","N","D","_","L","1">>, <<"G","N","D","_","R","1">>}
  ELSE IF type = "led" THEN {anode, cathode}
  ELSE IF type = "resistor" THEN {pin1}
  ELSE {vcc, signal}

\* the readings the user sets a potentiometer to
PotValues == {0, 512, 1023}

(***************************************************************************)
(* Handlers.                                                               *)
(***************************************************************************)
\* addComponent with the ESP8266 button never disabled
addComponentAnyTime(type, now) ==
  /\ Len(components) < MaxComponents
  /\ clock' = now
  /\ components' = Append(components, NewComponent(type, now))
  /\ code' = GenerateCode(components', connections)
  /\ ledStates' = Simulation(isRunning, components', connections)
  /\ rejected' = FALSE
  /\ UNCHANGED <<drag, connections, isRunning, connectingPin>>

\* addComponent(type), from the four buttons, when Date.now() reads now; the
\* ESP8266 button is disabled once a component of type esp8266 exists
addComponent(type, now) ==
  /\ Len(components) < MaxComponents
  /\ type = "esp8266" => \A k \in 1..Len(components) : components[k].type # "esp8266"
  /\ clock' = now
  /\ components' = Append(components, NewComponent(type, now))
  /\ code' = GenerateCode(components', connections)
  /\ ledStates' = Simulation(isRunning, components', connections)
  /\ rejected' = FALSE
  /\ UNCHANGED <<drag, connections, isRunning, connectingPin>>

\* handlePinClick with setConnectingPin(null) moved into the branch that
\* completes a connection: a click on the pending pin's component keeps it
handlePinClickKeepsArmed(i, pinId) ==
  LET componentId == components[i].id
  IN  IF connectingPin = <<>> THEN
        /\ connectingPin' = <<[componentId |-> componentId, pinId |-> pinId]>>
        /\ rejected' = FALSE
        /\ UNCHANGED <<drag, components, connections, code, isRunning, ledStates, clock>>
      ELSE IF connectingPin[1].componentId # componentId THEN
        /\ Len(connections) < MaxConnections
        /\ connections' = Append(connections,
             NewConnection(connectingPin[1].componentId, connectingPin[1].pinId,
                           componentId, pinId))
        /\ connectingPin' = <<>>
        /\ code' = GenerateCode(components, connections')
        /\ ledStates' = Simulation(isRunning, components, connections')
        /\ rejected' = FALSE
        /\ UNCHANGED <<drag, components, isRunning, clock>>
      ELSE
        /\ rejected' = TRUE
        /\ UNCHANGED <<drag, components, connections, code, isRunning, connectingPin,
                       ledStates, clock>>

\* handlePinClick without the test connectingPin.componentId !== componentId
handlePinClickSelfWire(i, pinId) ==
  LET componentId == components[i].id
  IN  IF connectingPin = <<>> THEN
        /\ connectingPin' = <<[componentId |-> componentId, pinId |-> pinId]>>
        /\ rejected' = FALSE
        /\ UNCHANGED <<drag, components, connections, code, isRunning, ledStates, clock>>
      ELSE
        /\ Len(connections) < MaxConnections
        /\ connections' = Append(connections,
             NewConnection(connectingPin[1].componentId, connectingPin[1].pinId,
                           componentId, pinId))
        /\ connectingPin' = <<>>
        /\ code' = GenerateCode(components, connections')
        /\ ledStates' = Simulation(isRunning, components, connections')
        /\ rejected' = (connectingPin[1].componentId = componentId)
        /\ UNCHANGED <<drag, components, isRunning, clock>>

\* handlePinClick(componentId, pinId), for a click on pin pinId of the i-th
\* component
handlePinClick(i, pinId) ==
  LET componentId == components[i].id
  IN  IF connectingPin = <<>> THEN
        /\ connectingPin' = <<[componentId |-> componentId, pinId |-> pinId]>>
        /\ rejected' = FALSE
        /\ UNCHANGED <<drag, components, connections, code, isRunning, ledStates, clock>>
      ELSE IF connectingPin[1].componentId # componentId THEN
        /\ Len(connections) < MaxConnections
        /\ connections' = Append(connections,
             NewConnection(connectingPin[1].componentId, connectingPin[1].pinId,
                           componentId, pinId))
        /\ connectingPin' = <<>>
        /\ code' = GenerateCode(components, connections')
        /\ ledStates' = Simulation(isRunning, components, connections')
        /\ rejected' = FALSE
        /\ UNCHANGED <<drag, components, isRunning, clock>>
      ELSE
        /\ connectingPin' = <<>>
        /\ rejected' = TRUE
        /\ UNCHANGED <<drag, components, connections, code, isRunning, ledStates, clock>>

\* the Cancelar button, shown while a pin is pending
cancelConnecting ==
  /\ connectingPin # <<>>
  /\ connectingPin' = <<>>
  /\ rejected' = FALSE
  /\ UNCHANGED <<drag, components, connections, code, isRunning, ledStates, clock>>

\* clearConnections with the simulation effect left out, as if connections
\* were missing from its dependency list
clearConnectionsKeepsStates ==
  /\ connections' = <<>>
  /\ code' = GenerateCode(components, connections')
  /\ rejected' = FALSE
  /\ UNCHANGED <<drag, components, isRunning, connectingPin, ledStates, clock>>

\* the Limpiar Conexiones button: setConnections([])
clearConnections ==
  /\ connections' = <<>>
  /\ code' = GenerateCode(components, connections')
  /\ ledStates' = Simulation(isRunning, components, connections')
  /\ rejected' = FALSE
  /\ UNCHANGED <<drag, components, isRunning, connectingPin, clock>>

\* the Ejecutar / Detener button: setIsRunning(!isRunning)
toggleRunning ==
  /\ isRunning' = ~isRunning
  /\ ledStates' = Simulation(isRunning', components, connections)
  /\ rejected' = FALSE
  /\ UNCHANGED <<drag, components, connections, code, connectingPin, clock>>

\* updatePotValue(componentId, newValue), from the slider of the i-th component
updatePotValue(i, newValue) ==
  /\ components[i].type = "potentiometer"
  /\ components' =
       [k \in 1..Len(components) |->
          IF components[k].id = components[i].id
          THEN [components[k] EXCEPT !.config = [value |-> newValue]]
          ELSE components[k]]
  /\ code' = GenerateCode(components', connections)
  /\ ledStates' = Simulation(isRunning, components', connections)
  /\ rejected' = FALSE
  /\ UNCHANGED <<drag, connections, isRunning, connectingPin, clock>>

\* handleMouseDown(e, componentId), for a press at mouse on the i-th component
handleMouseDown(i, mouse) ==
  LET componentId == components[i].id
      component == components[FindById(components, componentId)]
  IN  /\ draggingComponent' = <<componentId>>
      /\ dragOffset' = [x |-> mouse.x - component.x, y |-> mouse.y - component.y]
      /\ rejected' = FALSE
      /\ UNCHANGED <<components, connections, code, isRunning, connectingPin,
                     ledStates, clock>>

\* handleMouseMove with generateCode not run again, as if its effect followed
\* the connections alone
handleMouseMoveKeepsCode(mouse) ==
  /\ draggingComponent # <<>>
  /\ components' =
       [k \in 1..Len(components) |->
          IF components[k].id = draggingComponent[1]
          THEN [components[k] EXCEPT !.x = mouse.x - dragOffset.x,
                                     !.y = mouse.y - dragOffset.y]
          ELSE components[k]]
  /\ ledStates' = Simulation(isRunning, components', connections)
  /\ rejected' = FALSE
  /\ UNCHANGED <<drag, connections, code, isRunning, connectingPin, clock>>

\* handleMouseMove(e), for the pointer at mouse; it returns at once when no
\* component is being dragged
handleMouseMove(mouse) ==
  /\ draggingComponent # <<>>
  /\ components' =
       [k \in 1..Len(components) |->
          IF components[k].id = draggingComponent[1]
          THEN [components[k] EXCEPT !.x = mouse.x - dragOffset.x,
                                     !.y = mouse.y - dragOffset.y]
          ELSE components[k]]
  /\ code' = GenerateCode(components', connections)
  /\ ledStates' = Simulation(isRunning, components', connections)
  /\ rejected' = FALSE
  /\ UNCHANGED <<drag, connections, isRunning, connectingPin, clock>>

\* handleMouseUp
handleMouseUp ==
  /\ draggingComponent' = <<>>
  /\ rejected' = FALSE
  /\ UNCHANGED <<components, connections, code, isRunning, dragOffset,
                 connectingPin, ledStates, clock>>

\* the pin hit test of the canvas's onMouseDown: the press is less than 12
\* from the pin
NearPin(comp, pin, mouse) ==
  LET dx == mouse.x - (comp.x + pin.x)
      dy == mouse.y - (comp.y + pin.y)
  IN  dx * dx + dy * dy < 12 * 12

\* the first pin hit, in the order of the two loops, as <<component index,
\* pin index>>; <<>> when no pin is hit
PinAt(comps, mouse) ==
  LET hits == UNION {{<<k, j>> : j \in {n \in 1..Len(PinsOf(comps[k].type)) :
                         NearPin(comps[k], PinsOf(comps[k].type)[n], mouse)}} :
                      k \in 1..Len(comps)}
  IN  IF hits = {} THEN <<>>
      ELSE CHOOSE h \in hits :
             \A g \in hits : h[1] < g[1] \/ (h[1] = g[1] /\ h[2] <= g[2])

\* the box of a component in the component hit test
BoxWidth(type) ==
  IF type = "esp8266" THEN 120 ELSE IF type = "led" THEN 30 ELSE 60

BoxHeight(type) ==
  IF type = "esp8266" THEN 300
  ELSE IF type = "led" THEN 40
  ELSE IF type = "resistor" THEN 20
  ELSE 70

InBox(comp, mouse) ==
  /\ mouse.x >= comp.x /\ mouse.x <= comp.x + BoxWidth(comp.type)
  /\ mouse.y >= comp.y /\ mouse.y <= comp.y + BoxHeight(comp.type)

\* the first component whose box holds the press, as an index (0: none)
BoxAt(comps, mouse) == FirstIndex({k \in 1..Len(comps) : InBox(comps[k], mouse)})

\* the canvas's onMouseDown, for a press at mouse: a pin click when a pin is
\* hit, the start of a drag when a component is, nothing otherwise
onMouseDown(mouse) ==
  \E pin \in {PinAt(components, mouse)} :
    IF pin # <<>>
    THEN handlePinClick(pin[1], PinsOf(components[pin[1]].type)[pin[2]].id)
    ELSE /\ BoxAt(components, mouse) # 0
         /\ handleMouseDown(BoxAt(components, mouse), mouse)

\* the knob of a potentiometer is hit: the click is less than 22 from its centre
NearKnob(comp, mouse) ==
  LET dx == mouse.x - (comp.x + 35)
      dy == mouse.y - (comp.y + 30)
  IN  comp.type = "potentiometer" /\ dx * dx + dy * dy < 22 * 22

\* Math.max(0, Math.min(1023, Math.round(angle * 1023))) with
\* angle = (Math.atan2(dy, dx) + 0.75 PI) / (1.5 PI), for the clicks whose
\* result does not hang on the rounding of PI: to the right of the centre on
\* its height or on the centre itself (atan2 = 0, angle = 0.5, 511.5 rounds
\* up); in the left quadrant from 135 degrees to 180 degrees (angle >= 1,
\* clamped to 1023); in the left quadrant from -180 to -135 degrees
\* (angle <= 0, clamped to 0)
KnobValue(dx, dy) ==
  IF dy = 0 /\ dx >= 0 THEN 512
  ELSE IF dx < 0 /\ dy >= 0 /\ dy <= -dx THEN 1023
  ELSE 0

\* handleCanvasClick(e), for a click at mouse.  Every potentiometer whose knob
\* is hit gets updatePotValue, each call mapping the components of this
\* render, so that the last call's setComponents is the one that stays; with
\* no knob hit nothing is set
handleCanvasClick(mouse) ==
  \E last \in {k \in 1..Len(components) : NearKnob(components[k], mouse)} :
    \E newValue \in {KnobValue(mouse.x - (components[last].x + 35),
                               mouse.y - (components[last].y + 30))} :
      /\ \A j \in last + 1..Len(components) : ~NearKnob(components[j], mouse)
      /\ components' =
           [k \in 1..Len(components) |->
              IF components[k].id = components[last].id
              THEN [components[k] EXCEPT !.config = [value |-> newValue]]
              ELSE components[k]]
      /\ code' = GenerateCode(components', connections)
      /\ ledStates' = Simulation(isRunning, components', connections)
      /\ rejected' = FALSE
      /\ UNCHANGED <<drag, connections, isRunning, connectingPin, clock>>

\* the textarea's onChange: setCode(e.target.value)
editCode(text) ==
  /\ text # code
  /\ code' = text
  /\ rejected' = FALSE
  /\ UNCHANGED <<drag, components, connections, isRunning, connectingPin,
                 ledStates, clock>>

\* the clicks on the knob of a potentiometer: on its centre, and one pixel to
\* the left of it and one up or down
KnobClicks ==
  {[x |-> components[k].x + 35 + d[1], y |-> components[k].y + 30 + d[2]] :
     k \in {j \in 1..Len(components) : components[j].type = "potentiometer"},
     d \in {<<0, 0>>, <<-1, -1>>, <<-1, 1>>}}

\* The user places components and wires, runs the simulation and sets the
\* potentiometers, by slider or by knob; components stay where addComponent
\* puts them and the code text is left to generateCode.
Next ==
  \/ \E type \in ComponentTypes : \E now \in Readings :
       addComponent(type, now) /\ UNCHANGED trace
  \/ \E i \in 1..Len(components) : \E pinId \in ClickedPins(components[i].type) :
       handlePinClick(i, pinId) /\ UNCHANGED trace
  \/ cancelConnecting /\ UNCHANGED trace
  \/ clearConnections /\ UNCHANGED trace
  \/ toggleRunning /\ UNCHANGED trace
  \/ \E i \in 1..Len(components) : \E newValue \in PotValues :
       updatePotValue(i, newValue) /\ UNCHANGED trace
  \/ \E mouse \in KnobClicks : handleCanvasClick(mouse) /\ UNCHANGED trace

Spec == Init /\ [][Next]_vars

(***************************************************************************)
(* Vocabulary of the properties.                                           *)
(***************************************************************************)
Range(seq) == {seq[k] : k \in 1..Len(seq)}

HasEsp == FindEsp(components) # 0

\* the ids of the LED components
LedIds == {components[k].id : k \in {j \in 1..Len(components) : components[j].type = "led"}}

\* the bound LEDs and potentiometers of the current graph
BoundLeds == LedConnections(components, connections)
BoundPots == PotConnections(components, connections)

\* generateCode binds the LED id: it has an entry, and so a LED_PIN constant
IsBoundLed(id) == \E j \in 1..Len(BoundLeds) : BoundLeds[j].compId = id

\* the two ends of a connection, as a set of (component, pin) pairs
Ends(c) == {<<c.fromComponentId, c.fromPinId>>, <<c.toComponentId, c.toPinId>>}

\* the pins of a controller, and their ids
EspPins == PinsOf("esp8266")
EspPinIds == {EspPins[k].id : k \in 1..Len(EspPins)}

\* connection c joins pin pinId of component id to some pin of the controller
JoinsToEsp(c, id, pinId) ==
  /\ HasEsp
  /\ \E p \in EspPinIds : Ends(c) = {<<id, pinId>>, <<components[FindEsp(components)].id, p>>}

\* connection c joins some pin of component id to some pin of the controller
TouchesEsp(c, id) ==
  \E k \in 1..Len(PinsOf(TypeOfId(components, id))) :
      JoinsToEsp(c, id, PinsOf(TypeOfId(components, id))[k].id)

\* the text has the potentiometer-driven loop
UsesPotTemplate ==
  /\ HasEsp
  /\ "  brightness = map(potValue, 0, 1023, 0, 255);" \in Range(CodeLines(components, connections))
  /\ code = Join(CodeLines(components, connections))

\* the simulation found a potentiometer connected to the controller
PotDerived == PotScanUpTo(components, connections, Len(connections)).hasPotentiometer

(***************************************************************************)
(* The session with the canvas and the editor: the user also drags the     *)
(* components and types into the code text, and every press on the canvas  *)
(* goes through the hit tests of onMouseDown.  trace records, for the      *)
(* properties that speak of what has just happened:                        *)
(*   graph    whether the handler that ran last set components or           *)
(*            connections;                                                 *)
(*   cleared  how many times in a row Limpiar Conexiones has just been     *)
(*            pressed, up to 2, counted from a press on a graph with a     *)
(*            controller and at least one binding;                         *)
(*   edit     "fresh" when the code text is as the user typed it last,     *)
(*            "kept" when it has since stayed through another handler,     *)
(*            "none" when it is generateCode's;                            *)
(*   lost     what edit was when the last handler replaced a typed text,   *)
(*            "none" when it replaced none.                                *)
(***************************************************************************)
\* the handlers that set components or connections, and so run generateCode
GraphEvents ==
  {"addComponent", "connect", "clearConnections", "updatePotValue",
   "handleCanvasClick", "handleMouseMove"}

\* what a press at mouse does
PressEvent(mouse) ==
  LET pin == PinAt(components, mouse)
  IN  IF pin = <<>> THEN "handleMouseDown"
      ELSE IF connectingPin = <<>> THEN "arm"
      ELSE IF connectingPin[1].componentId = components[pin[1]].id THEN "reject"
      ELSE "connect"

Track(event) ==
  trace' =
    [graph   |-> event \in GraphEvents,
     cleared |-> IF event # "clearConnections" THEN 0
                 ELSE IF trace.cleared > 0 THEN 2
                 ELSE IF HasEsp /\ Len(BoundLeds) + Len(BoundPots) > 0 THEN 1
                 ELSE 0,
     edit    |-> IF event = "editCode" THEN "fresh"
                 ELSE IF event \in GraphEvents \/ trace.edit = "none" THEN "none"
                 ELSE "kept",
     lost    |-> IF event \in GraphEvents THEN trace.edit ELSE "none"]

\* the pins the user presses: for each component the pins of PressedPins, at
\* the place where the canvas draws them
PressedPins(type) ==
  IF type = "esp8266" THEN {<<"D","1">>, <<"D","2">>}
  ELSE IF type = "led" THEN {anode}
  ELSE IF type = "resistor" THEN {pin1}
  ELSE {signal}

PinPoints ==
  UNION {{[x |-> components[k].x + PinsOf(components[k].type)[j].x,
           y |-> components[k].y + PinsOf(components[k].type)[j].y] :
            j \in {n \in 1..Len(PinsOf(components[k].type)) :
                     PinsOf(components[k].type)[n].id \in PressedPins(components[k].type)}} :
         k \in 1..Len(components)}

\* where the user presses on a component to drag it, and where the pointer
\* goes with the button held
PressPoints == {[x |-> 130, y |-> 115]}
MovePoints == {[x |-> 130, y |-> 115], [x |-> 170, y |-> 115]}

\* what the user types over the code
TypedTexts == {"// editado a mano"}

NextEditing ==
  \/ \E type \in ComponentTypes : \E now \in Readings :
       Len(components) < MaxDragged /\ addComponent(type, now) /\ Track("addComponent")
  \/ \E mouse \in PinPoints \cup PressPoints :
       onMouseDown(mouse) /\ Track(PressEvent(mouse))
  \/ \E mouse \in MovePoints : handleMouseMove(mouse) /\ Track("handleMouseMove")
  \/ draggingComponent # <<>> /\ handleMouseUp /\ Track("handleMouseUp")
  \/ cancelConnecting /\ Track("cancelConnecting")
  \/ clearConnections /\ Track("clearConnections")
  \/ toggleRunning /\ Track("toggleRunning")
  \/ \E i \in 1..Len(components) : \E newValue \in PotValues :
       updatePotValue(i, newValue) /\ Track("updatePotValue")
  \/ \E mouse \in KnobClicks : handleCanvasClick(mouse) /\ Track("handleCanvasClick")
  \/ \E text \in TypedTexts : editCode(text) /\ Track("editCode")

SpecEditing == Init /\ [][NextEditing]_vars

(***************************************************************************)
(* Components placed in quick succession: Date.now() counts milliseconds   *)
(* (and browsers round it further), so a press of a button may read the    *)
(* same value as the press before it.  The user places components and      *)
(* moves the sliders of the potentiometers.                                *)
(***************************************************************************)
BurstReadings == {clock, clock + 1}

NextBurst ==
  \/ \E type \in ComponentTypes : \E now \in BurstReadings :
       addComponent(type, now) /\ UNCHANGED trace
  \/ \E i \in 1..Len(components) : \E newValue \in PotValues :
       updatePotValue(i, newValue) /\ UNCHANGED trace

SpecBurst == Init /\ [][NextBurst]_vars

(***************************************************************************)
(* C1.  With the run flag active, simulation and generated code agree on   *)
(* the wiring: an LED has an entry in ledStates if and only if             *)
(* generateCode binds it, and its brightness comes from a potentiometer if *)
(* and only if the code uses the potentiometer-driven template.  The code  *)
(* breaks this: the simulation takes a connection by any pin of the LED    *)
(* (or of the potentiometer), generateCode only by anode (signal).         *)
(***************************************************************************)
C1_SimulationAgreesWithCode ==
  isRunning =>
    \A id \in LedIds :
      /\ id \in DOMAIN ledStates <=> IsBoundLed(id)
      /\ id \in DOMAIN ledStates => (PotDerived <=> UsesPotTemplate)

(***************************************************************************)
(* C2.  With a controller, an LED is bound by generateCode if and only if  *)
(* some connection joins its anode pin to a controller pin, in either      *)
(* direction; cathode-only connections never bind it.  Every bound LED has *)
(* its LED_PIN constant in the text.                                       *)
(***************************************************************************)
C2_BoundIffAnodeToController ==
  HasEsp =>
    /\ \A id \in LedIds :
         IsBoundLed(id) <=> \E c \in Range(connections) : JoinsToEsp(c, id, anode)
    /\ \A j \in 1..Len(BoundLeds) :
         /\ BoundLeds[j].compId \in LedIds
         /\ ("#define LED_PIN_" \o DecStr(j) \o " " \o BoundLeds[j].pin)
               \in Range(CodeLines(components, connections))
    /\ code = Join(CodeLines(components, connections))

\* one LED bound through its anode, drawn from the controller to the LED, and
\* another LED joined to the controller by its cathode alone
C2_Witness ==
  /\ HasEsp
  /\ \E a, b \in LedIds :
       /\ a # b
       /\ IsBoundLed(a) /\ ~IsBoundLed(b)
       /\ \E c \in Range(connections) :
            c.toComponentId = a /\ c.toPinId = anode /\ JoinsToEsp(c, a, anode)
       /\ \E c \in Range(connections) : JoinsToEsp(c, b, cathode)

(***************************************************************************)
(* C3.  With the run flag active, a controller, a bound LED and some       *)
(* potentiometer connected to the controller, every LED connected to the   *)
(* controller has brightness exactly v / 1023 for the reading v of a       *)
(* linked potentiometer, for every v in 0..1023.  The code breaks this at  *)
(* v = 0, which `value || 512` reads as 512.                               *)
(***************************************************************************)
C3_BrightnessIsReadingOver1023 ==
  (isRunning /\ HasEsp /\ Len(BoundLeds) > 0
     /\ \E c \in Range(connections) : IsPotLink(c, components))
  =>
    \A id \in LedIds :
      (\E c \in Range(connections) : TouchesEsp(c, id)) =>
        /\ id \in DOMAIN ledStates
        /\ \E c \in Range(connections) :
             /\ IsPotLink(c, components)
             /\ PotComp(c, components).config.value \in 0..1023
             /\ ledStates[id] = Frac(PotComp(c, components).config.value, 1023)

\* handlePinClick(i, pinId) taken while a pin of components[i] is pending
SameComponentClick(i, pinId) ==
  /\ connectingPin # <<>>
  /\ connectingPin[1].componentId = components[i].id
  /\ handlePinClick(i, pinId)

C5_NoSelfConnection ==
  \A c \in Range(connections) : c.fromComponentId # c.toComponentId

\* a self-connection has just been attempted on a graph that has wires
C5_Witness == rejected /\ connections # <<>>

(***************************************************************************)
(* C6.  Without a controller the code is the one-line placeholder and the  *)
(* brightness map is empty, whatever the other components and connections  *)
(* and whether the run flag is active or not.                              *)
(***************************************************************************)
C6_NoControllerPlaceholder ==
  ~HasEsp => code = "// Agrega un ESP8266 para comenzar" /\ DOMAIN ledStates = {}

\* running, no controller, and a wire on an LED
C6_Witness ==
  /\ ~HasEsp /\ isRunning
  /\ \E id \in LedIds : \E c \in Range(connections) :
       c.fromComponentId = id \/ c.toComponentId = id

\* the minimal skeleton: header comment, fixed setup, idle loop
SkeletonHead ==
  <<"// Código generado automáticamente para NodeMCU ESP8266", "">>

SkeletonBody ==
  <<"void setup() {",
    "  Serial.begin(115200);",
    "  Serial.println(\"ESP8266 iniciado\");",
    "}",
    "",
    "void loop() {",
    "  // Código principal aquí",
    "  delay(100);",
    "}">>

(***************************************************************************)
(* C7.  As claimed: with a controller and no LED bound the code is the     *)
(* minimal skeleton, with no pin-constant declarations, potentiometers     *)
(* wired to the controller included.  generateCode declares a POT_PIN      *)
(* constant for every bound potentiometer, bound LEDs or not.              *)
(***************************************************************************)
C7_NoLedMinimalSkeleton ==
  (HasEsp /\ Len(BoundLeds) = 0) => code = Join(SkeletonHead \o SkeletonBody)

\* one POT_PIN constant per bound potentiometer
PotDefines ==
  [idx \in 1..Len(BoundPots) |-> "#define POT_PIN_" \o DecStr(idx) \o " " \o BoundPots[idx].pin]

(***************************************************************************)
(* C7, amended.  With a controller and no LED bound the code is the fixed  *)
(* setup block and a loop body with only the idle delay, with no LED_PIN   *)
(* constant; it declares one POT_PIN constant for each potentiometer bound *)
(* through its signal pin, and is the minimal skeleton when there is none. *)
(***************************************************************************)
C7_NoLedSkeletonWithPotPins ==
  (HasEsp /\ Len(BoundLeds) = 0) =>
    /\ code = Join(SkeletonHead
                   \o (IF Len(BoundPots) > 0 THEN PotDefines \o <<"">> ELSE <<>>)
                   \o SkeletonBody)
    /\ Len(BoundPots) = 0 => code = Join(SkeletonHead \o SkeletonBody)

\* a controller, a potentiometer bound by its signal pin, and an LED wired
\* to the controller by its cathode only
C7_Witness ==
  /\ HasEsp /\ Len(BoundLeds) = 0 /\ Len(BoundPots) > 0
  /\ \E id \in LedIds : \E c \in Range(connections) : JoinsToEsp(c, id, cathode)

\* the permutations of 1..n, and a connection list reordered by one
Perms(n) == {q \in [1..n -> 1..n] : \A a, b \in 1..n : q[a] = q[b] => a = b}

Permuted(conns, q) == [k \in 1..Len(conns) |-> conns[q[k]]]

\* the bound LEDs are in creation order, and each has its constant in the text
InCreationOrder(comps, conns) ==
  LET leds == LedConnections(comps, conns)
  IN  /\ \A a, b \in 1..Len(leds) :
           a < b => FindById(comps, leds[a].compId) < FindById(comps, leds[b].compId)
      /\ \A a \in 1..Len(leds) :
           ("#define LED_PIN_" \o DecStr(a) \o " " \o leds[a].pin)
              \in Range(CodeLines(comps, conns))

(***************************************************************************)
(* C8.  LED_PIN_1..LED_PIN_N go to the bound LEDs in the order the LED     *)
(* components were created, under every permutation of the connection      *)
(* list.                                                                   *)
(***************************************************************************)
C8_ConstantsInCreationOrder ==
  HasEsp =>
    /\ code = Join(CodeLines(components, connections))
    /\ \A q \in Perms(Len(connections)) :
         /\ InCreationOrder(components, Permuted(connections, q))
         /\ [j \in 1..Len(BoundLeds) |-> BoundLeds[j].compId]
              = [j \in 1..Len(LedConnections(components, Permuted(connections, q))) |->
                   LedConnections(components, Permuted(connections, q))[j].compId]

\* two bound LEDs, the wire of the later one stored first
C8_Witness ==
  /\ Len(BoundLeds) = 2
  /\ Len(connections) = 2
  /\ BoundLeds[2].compId \in {connections[1].fromComponentId, connections[1].toComponentId}
  /\ BoundLeds[1].compId \in {connections[2].fromComponentId, connections[2].toComponentId}

\* the pin names a binding of component id may carry: the labels of the
\* controller pins its wires reach
ReachedLabels(id, pinId) ==
  {p.label : p \in {r \in Range(EspPins) :
      \E c \in Range(connections) :
        Ends(c) = {<<id, pinId>>, <<components[FindEsp(components)].id, r.id>>}}}

\* the table: 30 pins, and the name of each is its label
EspPinNamesAreLabels ==
  /\ Len(EspPins) = 30
  /\ \A p \in Range(EspPins) : PinName(p.id) = p.label

(***************************************************************************)
(* C9.  The pin name written into a pin constant is the controller pin id  *)
(* with its side suffix stripped: for each of the 30 controller pins it is *)
(* the pin's label, so the physical pins that share a logical name give    *)
(* the same name, and every binding in the graph carries the label of a    *)
(* controller pin that one of the component's wires reaches.               *)
(***************************************************************************)
C9_PinNameIsLabel ==
  /\ EspPinNamesAreLabels
  /\ \A j \in 1..Len(BoundLeds) : BoundLeds[j].pin \in ReachedLabels(BoundLeds[j].compId, anode)
  /\ \A j \in 1..Len(BoundPots) : BoundPots[j].pin \in ReachedLabels(BoundPots[j].compId, signal)

\* two bindings through different physical GND pins, written with one name
C9_Witness ==
  /\ Len(BoundLeds) + Len(BoundPots) = 2
  /\ \A e \in Range(BoundLeds) \cup Range(BoundPots) : e.pin = "GND"
  /\ \E c, d \in Range(connections) :
       /\ <<"G","N","D","_","L","1">> \in {c.fromPinId, c.toPinId}
       /\ <<"G","N","D","_","R","1">> \in {d.fromPinId, d.toPinId}

\* a connection with its ends exchanged, and a list with those in S exchanged
Swapped(c) ==
  [fromComponentId |-> c.toComponentId, fromPinId |-> c.toPinId,
   toComponentId |-> c.fromComponentId, toPinId |-> c.fromPinId]

SwapEnds(conns, S) ==
  [k \in 1..Len(conns) |-> IF k \in S THEN Swapped(conns[k]) ELSE conns[k]]

(***************************************************************************)
(* C10.  Connections are undirected: swapping the from and to ends of any  *)
(* subset of the connections leaves the generated code and the brightness  *)
(* map as they are.                                                        *)
(***************************************************************************)
C10_Undirected ==
  \A S \in SUBSET (1..Len(connections)) :
    /\ GenerateCode(components, SwapEnds(connections, S)) = code
    /\ Simulation(isRunning, components, SwapEnds(connections, S)) = ledStates

\* running, an LED bound and lit through a wire drawn from the LED, and a
\* second wire drawn from the controller
C10_Witness ==
  /\ isRunning /\ HasEsp
  /\ \E id \in LedIds :
       /\ IsBoundLed(id) /\ id \in DOMAIN ledStates
       /\ \E c \in Range(connections) : c.fromComponentId = id /\ JoinsToEsp(c, id, anode)
  /\ \E c \in Range(connections) : c.fromComponentId = components[FindEsp(components)].id

(***************************************************************************)
(* C11.  Limpiar Conexiones on a graph with a controller and at least one  *)
(* binding leaves the code equal to the template for no bound LED, the     *)
(* minimal skeleton, and the brightness map empty; pressed again at once   *)
(* it leaves components, connections, code and brightness map as the first *)
(* press left them.                                                        *)
(***************************************************************************)
C11_ClearIsIdempotent ==
  [][clearConnections =>
       /\ connections' = <<>>
       /\ (HasEsp /\ Len(BoundLeds) + Len(BoundPots) > 0) =>
            /\ code' = Join(SkeletonHead \o SkeletonBody)
            /\ DOMAIN ledStates' = {}
       /\ trace.cleared > 0 =>
            UNCHANGED <<components, connections, code, ledStates>>]_vars

\* two presses in a row, the first on a running graph with a binding
C11_Witness ==
  /\ trace.cleared = 2
  /\ isRunning /\ HasEsp /\ LedIds # {}
  /\ code = Join(SkeletonHead \o SkeletonBody)

(***************************************************************************)
(* C12.  The simulation has two states: stopped, with the brightness map   *)
(* empty, and running, with the map equal to updateLedStates of the        *)
(* current components and connections, after the run button as after every *)
(* handler that changes the graph while running.                           *)
(***************************************************************************)
C12_StoppedOrDerived ==
  /\ ~isRunning => DOMAIN ledStates = {}
  /\ isRunning => ledStates = UpdateLedStates(components, connections)

\* running, the last handler changed the graph, and an LED is lit
C12_Witness ==
  /\ isRunning /\ trace.graph
  /\ \E id \in LedIds : id \in DOMAIN ledStates

(***************************************************************************)
(* C13.  The component list never holds more than one esp8266: while one   *)
(* exists no step is an addComponent('esp8266'), and a component that is   *)
(* added is of another type.                                               *)
(***************************************************************************)
C13_AtMostOneController ==
  /\ [](Cardinality({k \in 1..Len(components) : components[k].type = "esp8266"}) <= 1)
  /\ [][HasEsp =>
          /\ \A now \in Readings : ~addComponent("esp8266", now)
          /\ Len(components') > Len(components) =>
               components'[Len(components')].type # "esp8266"]_vars

\* a controller on the canvas, and a component added after it
C13_Witness == Len(components) >= 2 /\ components[1].type = "esp8266"

(***************************************************************************)
(* C14.  As claimed: no two components of the store share an id, after any *)
(* sequence of addComponent calls, two calls for the same type at the same *)
(* clock reading included.  The id is `${type}_${Date.now()}`: two LEDs    *)
(* added at one reading are both led_<reading>.                            *)
(***************************************************************************)
C14_UniqueIds ==
  \A a, b \in 1..Len(components) : a # b => components[a].id # components[b].id

(***************************************************************************)
(* C15.  The code text keeps no trace of what the user typed: after every  *)
(* step that changes the components (one added, one moved, a               *)
(* potentiometer set) or the connections (one added, all cleared) it is    *)
(* generateCode's text for the new graph, whatever it was before; a step   *)
(* that toggles the run flag, or arms or disarms a pending pin without     *)
(* adding a connection, leaves the text as it was, typed or not.           *)
(***************************************************************************)
C15_NoMemoryOfEdits ==
  [][/\ (components' # components \/ connections' # connections) =>
          code' = GenerateCode(components', connections')
     /\ (isRunning' # isRunning
         \/ (connectingPin' # connectingPin /\ connections' = connections)) =>
          code' = code]_vars

\* a typed text stayed through a handler that left the graph alone, and the
\* last handler, which changed the graph, replaced it by generateCode's
C15_Witness ==
  /\ trace.lost = "kept"
  /\ code = GenerateCode(components, connections)
  /\ code \notin TypedTexts

\* the connections that join the anode of LED id to a pin of the controller,
\* as indices into the stored list
AnodeLinks(id) == {k \in 1..Len(connections) : JoinsToEsp(connections[k], id, anode)}

\* the controller's end of a connection
EspEnd(c) ==
  IF c.fromComponentId = components[FindEsp(components)].id THEN c.fromPinId ELSE c.toPinId

(***************************************************************************)
(* C16.  An LED with one or more connections from its anode to controller  *)
(* pins gets exactly one binding, and the pin of the binding is the        *)
(* controller pin of the earliest of those connections in the stored       *)
(* list; the code text, unless the user has typed over it, is the one with *)
(* that binding.                                                           *)
(***************************************************************************)
C16_EarliestAnodeConnectionWins ==
  \A id \in LedIds :
    AnodeLinks(id) # {} =>
      /\ Cardinality({j \in 1..Len(BoundLeds) : BoundLeds[j].compId = id}) = 1
      /\ \A j \in 1..Len(BoundLeds) :
           BoundLeds[j].compId = id =>
             \E first \in AnodeLinks(id) :
               /\ \A k \in AnodeLinks(id) : first <= k
               /\ BoundLeds[j].pin = Str(SplitFirst(EspEnd(connections[first])))
               /\ ("#define LED_PIN_" \o DecStr(j) \o " " \o BoundLeds[j].pin)
                     \in Range(CodeLines(components, connections))
      /\ trace.edit = "none" => code = Join(CodeLines(components, connections))

\* an LED whose anode goes to two controller pins of different names
C16_Witness ==
  \E id \in LedIds :
    /\ Cardinality(AnodeLinks(id)) = 2
    /\ \E a, b \in AnodeLinks(id) :
         Str(SplitFirst(EspEnd(connections[a]))) # Str(SplitFirst(EspEnd(connections[b])))

\* the ids of the potentiometers
PotIds ==
  {components[k].id : k \in {j \in 1..Len(components) : components[j].type = "potentiometer"}}

\* some LED has its anode, some potentiometer its signal pin, on the controller
SomeAnodeLink == \E id \in LedIds : \E c \in Range(connections) : JoinsToEsp(c, id, anode)
SomeSignalLink == \E id \in PotIds : \E c \in Range(connections) : JoinsToEsp(c, id, signal)

\* the lines read the potentiometer and write the LEDs with PWM
PotTemplate(lines) ==
  /\ {"int potValue = 0;", "int brightness = 0;",
      "  brightness = map(potValue, 0, 1023, 0, 255);"} \subseteq lines
  /\ "  potValue = analogRead(POT_PIN_1);" \in lines
  /\ "  analogWrite(LED_PIN_1, brightness);" \in lines
  /\ "  digitalWrite(LED_PIN_1, HIGH);" \notin lines

\* the lines blink the LEDs
BlinkTemplate(lines) ==
  /\ {"  digitalWrite(LED_PIN_1, HIGH);", "  digitalWrite(LED_PIN_1, LOW);",
      "  delay(500);"} \subseteq lines
  /\ lines \cap {"int potValue = 0;", "  brightness = map(potValue, 0, 1023, 0, 255);",
                 "  potValue = analogRead(POT_PIN_1);",
                 "  analogWrite(LED_PIN_1, brightness);"} = {}

(***************************************************************************)
(* C17.  A potentiometer is bound exactly when a connection joins its      *)
(* signal pin to a controller pin, never by vcc or gnd alone.  The text    *)
(* has the potentiometer-driven loop if and only if an LED is bound and a  *)
(* potentiometer is bound; with an LED bound and no potentiometer bound it *)
(* has the blink loop.                                                     *)
(***************************************************************************)
C17_PotBoundBySignal ==
  HasEsp =>
    \E codeLines \in {CodeLines(components, connections)} :
      /\ \A id \in PotIds :
           (\E j \in 1..Len(BoundPots) : BoundPots[j].compId = id)
             <=> \E c \in Range(connections) : JoinsToEsp(c, id, signal)
      /\ code = Join(codeLines)
      /\ PotTemplate(Range(codeLines)) <=> (SomeAnodeLink /\ SomeSignalLink)
      /\ (SomeAnodeLink /\ ~SomeSignalLink) => BlinkTemplate(Range(codeLines))

\* an LED bound, and a potentiometer on the controller by its vcc pin alone
C17_Witness ==
  /\ HasEsp /\ SomeAnodeLink /\ ~SomeSignalLink
  /\ \E id \in PotIds : \E c \in Range(connections) : JoinsToEsp(c, id, vcc)

\* the lines a sketch may use to wait, and those that touch LED_PIN_j
DelayLines == {"  delay(" \o DecStr(t) \o ");" : t \in 1..1000}
HighLine(j) == "  digitalWrite(LED_PIN_" \o DecStr(j) \o ", HIGH);"
LowLine(j) == "  digitalWrite(LED_PIN_" \o DecStr(j) \o ", LOW);"
PinModeLine(j) == "  pinMode(LED_PIN_" \o DecStr(j) \o ", OUTPUT);"

\* the places of a line in a sequence of lines
Places(lines, line) == {k \in 1..Len(lines) : lines[k] = line}

\* the lines of a function of the sketch: from the line after its heading to
\* the line before the next "}"
Body(lines, heading) ==
  LET from == CHOOSE k \in 1..Len(lines) : lines[k] = heading
      to   == CHOOSE k \in from + 1..Len(lines) :
                lines[k] = "}" /\ \A m \in from + 1..k - 1 : lines[m] # "}"
  IN  SubSeq(lines, from + 1, to - 1)

\* the loop body blinks n LEDs in lock-step
LockStep(loop, n) ==
  \E d1, d2 \in 1..Len(loop) :
    /\ d1 < d2
    /\ loop[d1] \in DelayLines /\ loop[d2] = loop[d1]
    /\ \A k \in 1..Len(loop) : loop[k] \in DelayLines => k \in {d1, d2}
    /\ \A j \in 1..n :
         /\ \E k \in 1..d1 - 1 : Places(loop, HighLine(j)) = {k}
         /\ \E k \in d1 + 1..d2 - 1 : Places(loop, LowLine(j)) = {k}
    /\ \A j \in n + 1..MaxComponents :
         Places(loop, HighLine(j)) = {} /\ Places(loop, LowLine(j)) = {}

\* the setup block makes LED_PIN_1..LED_PIN_n outputs, and no other
SetsOutputs(setup, n) ==
  /\ \A j \in 1..n : Cardinality(Places(setup, PinModeLine(j))) = 1
  /\ \A j \in n + 1..MaxComponents : Places(setup, PinModeLine(j)) = {}

(***************************************************************************)
(* C18.  With N LEDs bound and no potentiometer bound the loop body is in  *)
(* lock-step: the HIGH writes of LED_PIN_1..LED_PIN_N all come before the  *)
(* first delay, their LOW writes all between the first delay and the       *)
(* second, the two delays are the same line, and setup makes exactly those *)
(* N pins outputs.                                                         *)
(***************************************************************************)
C18_BlinkInLockStep ==
  (HasEsp /\ SomeAnodeLink /\ ~SomeSignalLink) =>
    \E codeLines \in {CodeLines(components, connections)} :
      /\ code = Join(codeLines)
      /\ LockStep(Body(codeLines, "void loop() {"),
                  Cardinality({id \in LedIds : AnodeLinks(id) # {}}))
      /\ SetsOutputs(Body(codeLines, "void setup() {"),
                     Cardinality({id \in LedIds : AnodeLinks(id) # {}}))

\* two LEDs bound and no potentiometer
C18_Witness ==
  /\ HasEsp /\ ~SomeSignalLink
  /\ Cardinality({id \in LedIds : AnodeLinks(id) # {}}) = 2

\* the readings and the brightness levels are in range
InRange ==
  /\ \A k \in 1..Len(components) :
       components[k].type = "potentiometer" => components[k].config.value \in 0..1023
  /\ \A id \in DOMAIN ledStates :
       /\ ledStates[id][2] > 0
       /\ 0 <= ledStates[id][1] /\ ledStates[id][1] <= ledStates[id][2]

\* the components whose config the step changes
Reset == {k \in 1..Len(components) : components'[k].config # components[k].config}

\* the step sets the reading of the i-th component, a potentiometer, and
\* nothing else of the graph or of the code text
SetsOnly(i) ==
  /\ components[i].type = "potentiometer"
  /\ components'[i].config.value \in 0..1023
  /\ components'[i] =
       [components[i] EXCEPT !.config = [value |-> components'[i].config.value]]
  /\ \A k \in 1..Len(components) : k # i => components'[k] = components[k]
  /\ connections' = connections
  /\ code' = code

(***************************************************************************)
(* C19.  As claimed: every potentiometer's reading is in 0..1023 and every *)
(* brightness in the map is in [0, 1], and a step that changes a           *)
(* potentiometer's reading, from its slider or from a click on its knob,   *)
(* changes the reading of that component alone: the other components, the  *)
(* connections and the code text stay as they were.  updatePotValue sets   *)
(* every component whose id is the one it is given, and two potentiometers *)
(* added at one clock reading have one id.                                 *)
(***************************************************************************)
C19_ReadingInRangeAndFramed ==
  /\ []InRange
  /\ [][(Len(components') = Len(components) /\ Reset # {}) =>
          \E i \in Reset : SetsOnly(i)]_vars

====
